---- MODULE Spec2Model ----
(***************************************************************************)
(* Model of subscriber_server.py: the subscriber store (load_subscribers,  *)
(* save_subscribers), the request handler SubscribeHandler.do_POST and the *)
(* single-threaded HTTPServer that main() starts.                          *)
(*                                                                         *)
(* Text is modelled as text: a str or bytes value is a sequence of         *)
(* one-character strings, <<"a","@","b">>.  The element "xFF" stands for a *)
(* byte that is not valid UTF-8.  The store file and the request body are  *)
(* such sequences, written by dumps and read by loads below.               *)
(***************************************************************************)
EXTENDS Integers, Sequences, FiniteSets, TLC

(***************************************************************************)
(* Characters and strings                                                  *)
(***************************************************************************)

\* The code point of a character, which is what Python's str ordering
\* compares.  Defined for the characters that can occur in a stored string.
Ord(c) ==
  CASE c = "\n" -> 10
    [] c = " "  -> 32
    [] c = "\"" -> 34
    [] c = "."  -> 46
    [] c = "0"  -> 48
    [] c = "1"  -> 49
    [] c = "5"  -> 53
    [] c = "7"  -> 55
    [] c = "@"  -> 64
    [] c = "N"  -> 78
    [] c = "\\" -> 92
    [] c = "a"  -> 97
    [] c = "b"  -> 98
    [] c = "c"  -> 99
    [] c = "e"  -> 101
    [] c = "n"  -> 110
    [] c = "o"  -> 111

Digits == <<"0", "1", "2", "3", "4", "5", "6", "7", "8", "9">>

IsDigit(c) == \E d \in 1..10 : Digits[d] = c

DigitValue(c) == (CHOOSE d \in 1..10 : Digits[d] = c) - 1

\* str.isspace for the whitespace of the model's alphabet
IsSpace(c) == c \in {" ", "\n"}

\* Python's str < str: lexicographic by code point
StrLess(s, t) ==
  \/ /\ Len(s) < Len(t)
     /\ \A i \in 1..Len(s) : s[i] = t[i]
  \/ \E i \in 1..Len(s) :
       /\ i <= Len(t)
       /\ \A j \in 1..(i - 1) : s[j] = t[j]
       /\ Ord(s[i]) < Ord(t[i])

\* x in s, for a one-character x
Contains(s, c) == \E i \in 1..Len(s) : s[i] = c

RECURSIVE lstrip(_)
lstrip(s) ==
  IF s # <<>> /\ IsSpace(Head(s)) THEN lstrip(Tail(s)) ELSE s

RECURSIVE rstrip(_)
rstrip(s) ==
  IF s # <<>> /\ IsSpace(s[Len(s)]) THEN rstrip(SubSeq(s, 1, Len(s) - 1)) ELSE s

\* str.strip()
strip(s) == rstrip(lstrip(s))

\* str(n) for a natural number
RECURSIVE DecimalDigits(_)
DecimalDigits(n) ==
  IF n < 10 THEN <<Digits[n + 1]>>
  ELSE DecimalDigits(n \div 10) \o <<Digits[(n % 10) + 1]>>

\* bytes.decode("utf-8"): fails on a byte that is not valid UTF-8
DecodeFails(raw) == Contains(raw, "xFF")

(***************************************************************************)
(* JSON values.  A Python value read from JSON is one of                   *)
(*   [t |-> "str", s |-> text]      [t |-> "int", n |-> number]            *)
(*   [t |-> "null"]                 [t |-> "list", items |-> values]       *)
(*   [t |-> "dict", pairs |-> <<key, value>> pairs in document order]      *)
(***************************************************************************)
JStr(s)   == [t |-> "str", s |-> s]
JInt(n)   == [t |-> "int", n |-> n]
JNull     == [t |-> "null"]
JList(xs) == [t |-> "list", items |-> xs]
JDict(ps) == [t |-> "dict", pairs |-> ps]

\* A parse result: the value and the position after it, or a failure
Parsed(v, i) == [ok |-> TRUE, val |-> v, pos |-> i]
ParseError == [ok |-> FALSE, val |-> JNull, pos |-> 0]

RECURSIVE SkipWs(_, _)
SkipWs(txt, i) ==
  IF i <= Len(txt) /\ IsSpace(txt[i]) THEN SkipWs(txt, i + 1) ELSE i

\* the body of a JSON string, from the character after the opening quote
RECURSIVE ParseString(_, _, _)
ParseString(txt, i, acc) ==
  IF i > Len(txt) THEN ParseError
  ELSE IF txt[i] = "\"" THEN Parsed(JStr(acc), i + 1)
  ELSE IF txt[i] = "\n" THEN ParseError
  ELSE IF txt[i] = "\\" THEN
    IF i + 1 > Len(txt) THEN ParseError
    ELSE IF txt[i + 1] \in {"\"", "\\"}
      THEN ParseString(txt, i + 2, Append(acc, txt[i + 1]))
    ELSE IF txt[i + 1] = "n"
      THEN ParseString(txt, i + 2, Append(acc, "\n"))
    ELSE ParseError
  ELSE ParseString(txt, i + 1, Append(acc, txt[i]))

\* the digits of a JSON number after its first digit
RECURSIVE ParseDigits(_, _, _)
ParseDigits(txt, i, n) ==
  IF i <= Len(txt) /\ IsDigit(txt[i])
  THEN ParseDigits(txt, i + 1, 10 * n + DigitValue(txt[i]))
  ELSE Parsed(JInt(n), i)

RECURSIVE ParseValue(_, _), ParseArray(_, _, _), ParseObject(_, _, _)
\* a JSON value starting at position i (whitespace already skipped)
ParseValue(txt, i) ==
  IF i > Len(txt) THEN ParseError
  ELSE IF txt[i] = "\"" THEN ParseString(txt, i + 1, <<>>)
  ELSE IF txt[i] = "0" THEN Parsed(JInt(0), i + 1)
  ELSE IF IsDigit(txt[i]) THEN ParseDigits(txt, i + 1, DigitValue(txt[i]))
  ELSE IF txt[i] = "n" THEN
    IF i + 3 <= Len(txt) /\ SubSeq(txt, i, i + 3) = <<"n", "u", "l", "l">>
    THEN Parsed(JNull, i + 4) ELSE ParseError
  ELSE IF txt[i] = "[" THEN
    LET j == SkipWs(txt, i + 1) IN
    IF j <= Len(txt) /\ txt[j] = "]" THEN Parsed(JList(<<>>), j + 1)
    ELSE ParseArray(txt, j, <<>>)
  ELSE IF txt[i] = "{" THEN
    LET j == SkipWs(txt, i + 1) IN
    IF j <= Len(txt) /\ txt[j] = "}" THEN Parsed(JDict(<<>>), j + 1)
    ELSE ParseObject(txt, j, <<>>)
  ELSE ParseError

\* the elements of an array, from the first character of an element
ParseArray(txt, i, acc) ==
  LET v == ParseValue(txt, i) IN
  IF ~v.ok THEN ParseError
  ELSE
    LET j == SkipWs(txt, v.pos) IN
    IF j > Len(txt) THEN ParseError
    ELSE IF txt[j] = "]" THEN Parsed(JList(Append(acc, v.val)), j + 1)
    ELSE IF txt[j] = "," THEN ParseArray(txt, SkipWs(txt, j + 1), Append(acc, v.val))
    ELSE ParseError

\* the members of an object, from the opening quote of a key
ParseObject(txt, i, acc) ==
  IF i > Len(txt) \/ txt[i] # "\"" THEN ParseError
  ELSE
    LET k == ParseString(txt, i + 1, <<>>) IN
    IF ~k.ok THEN ParseError
    ELSE
      LET c == SkipWs(txt, k.pos) IN
      IF c > Len(txt) \/ txt[c] # ":" THEN ParseError
      ELSE
        LET v == ParseValue(txt, SkipWs(txt, c + 1)) IN
        IF ~v.ok THEN ParseError
        ELSE
          LET j == SkipWs(txt, v.pos)
              ps == Append(acc, <<k.val.s, v.val>>)
          IN
          IF j > Len(txt) THEN ParseError
          ELSE IF txt[j] = "}" THEN Parsed(JDict(ps), j + 1)
          ELSE IF txt[j] = "," THEN ParseObject(txt, SkipWs(txt, j + 1), ps)
          ELSE ParseError

\* json.loads(text): the value, or ok = FALSE for json.JSONDecodeError.
\* The subset of JSON read is: strings with the escapes \" \\ \n,
\* non-negative integers, null, arrays and objects.
loads(txt) ==
  LET v == ParseValue(txt, SkipWs(txt, 1)) IN
  IF v.ok /\ SkipWs(txt, v.pos) = Len(txt) + 1 THEN v ELSE ParseError

\* a str as a JSON string literal (json.dumps of a str)
RECURSIVE EscapeChars(_)
EscapeChars(s) ==
  IF s = <<>> THEN <<>>
  ELSE (IF Head(s) \in {"\"", "\\"} THEN <<"\\", Head(s)>>
        ELSE IF Head(s) = "\n" THEN <<"\\", "n">>
        ELSE <<Head(s)>>) \o EscapeChars(Tail(s))

EncodeString(s) == <<"\"">> \o EscapeChars(s) \o <<"\"">>

\* json.dumps of a scalar element
EncodeScalar(v) ==
  CASE v.t = "str"  -> EncodeString(v.s)
    [] v.t = "int"  -> DecimalDigits(v.n)
    [] v.t = "null" -> <<"n", "u", "l", "l">>

RECURSIVE DumpItems(_)
DumpItems(xs) ==
  IF Len(xs) = 1 THEN <<" ", " ">> \o EncodeScalar(xs[1])
  ELSE <<" ", " ">> \o EncodeScalar(xs[1]) \o <<",", "\n">> \o DumpItems(Tail(xs))

\* json.dumps(xs, indent=2) for a list of scalars
dumps(xs) ==
  IF xs = <<>> THEN <<"[", "]">>
  ELSE <<"[", "\n">> \o DumpItems(xs) \o <<"\n", "]">>


(***************************************************************************)
(* Subscriber store                                                        *)
(***************************************************************************)

\* The store file: whether it exists, and its bytes
AbsentFile == [exists |-> FALSE, bytes |-> <<>>]
FileOf(bytes) == [exists |-> TRUE, bytes |-> bytes]

\* What a call does: returns a value, or raises the named exception
Returns(v) == [raised |-> "", value |-> v]
Raises(e) == [raised |-> e, value |-> <<>>]

\* load_subscribers(path): the list read from the file
load_subscribers(f) ==
  IF ~f.exists THEN Returns(<<>>)
  ELSE IF DecodeFails(f.bytes) THEN Raises("UnicodeDecodeError")
  ELSE
    LET data == loads(f.bytes) IN
    IF ~data.ok THEN Returns(<<>>)
    ELSE IF data.val.t = "list" THEN Returns(data.val.items)
    ELSE Returns(<<>>)

Range(xs) == {xs[i] : i \in 1..Len(xs)}

\* Python's a < b between two values of a list being sorted: defined between
\* two str and between two int, a TypeError otherwise
Comparable(a, b) == a.t = b.t /\ a.t \in {"str", "int"}

ValLess(a, b) == IF a.t = "str" THEN StrLess(a.s, b.s) ELSE a.n < b.n

RECURSIVE SortedSeq(_)
SortedSeq(S) ==
  IF S = {} THEN <<>>
  ELSE LET m == CHOOSE x \in S : \A y \in S \ {x} : ValLess(x, y)
       IN <<m>> \o SortedSeq(S \ {m})

\* the list as it is when appended to without sorting, duplicates dropped
RECURSIVE Unsorted(_)
Unsorted(xs) ==
  IF xs = <<>> THEN <<>>
  ELSE LET r == Unsorted(SubSeq(xs, 1, Len(xs) - 1)) IN
       IF xs[Len(xs)] \in Range(r) THEN r ELSE Append(r, xs[Len(xs)])

\* sorted(set(emails)): raises TypeError on an unhashable element and on a
\* comparison between values that have no order
sorted_set(emails) ==
  IF \E i \in 1..Len(emails) : emails[i].t \in {"list", "dict"}
    THEN Raises("TypeError")
  ELSE IF \E a, b \in Range(emails) : a # b /\ ~Comparable(a, b)
    THEN Raises("TypeError")
  ELSE Returns(SortedSeq(Range(emails)))

\* a save that writes the list in the order it was appended to
save_unsorted(emails) ==
  IF \E i \in 1..Len(emails) : emails[i].t \in {"list", "dict"}
    THEN Raises("TypeError")
  ELSE Returns(FileOf(dumps(Unsorted(emails))))

\* save_subscribers(path, emails): the file written, or the exception raised
\* before anything is written
save_subscribers(emails) ==
  LET s == sorted_set(emails) IN
  IF s.raised # "" THEN s ELSE Returns(FileOf(dumps(s.value)))

\* email not in emails
NotIn(email, emails) ==
  ~\E i \in 1..Len(emails) : emails[i].t = "str" /\ emails[i].s = email

\* an append that drops what was loaded
append_replacing(emails, email) == <<JStr(email)>>

\* emails.append(email)
append(emails, email) == Append(emails, JStr(email))


(***************************************************************************)
(* Requests.  A request is                                                 *)
(*   method, path   the request line, the target already split by urlparse *)
(*   query          the target's query string: <<key, value>> pairs        *)
(*   xauth          the X-Auth-Token header, "" when absent                *)
(*   clen           the Content-Length header                              *)
(*   data           the bytes that follow the headers                      *)
(* A Content-Length larger than the data sent, on which rfile.read blocks  *)
(* until the client closes, is not among the requests.                     *)
(***************************************************************************)
NoLength == [kind |-> "absent", n |-> 0]
Length(n) == [kind |-> "int", n |-> n]
BadLength == [kind |-> "nan", n |-> 0]

\* (parse_qs(query).get("token") or [""])[0]: the first non-blank value
RECURSIVE query_token(_)
query_token(query) ==
  IF query = <<>> THEN ""
  ELSE IF Head(query)[1] = "token" /\ Head(query)[2] # "" THEN Head(query)[2]
  ELSE query_token(Tail(query))

\* a token read from the query parameter before the header
token_query_first(r) ==
  IF query_token(r.query) # "" THEN query_token(r.query) ELSE r.xauth

\* the token a request presents
token(r) == IF r.xauth # "" THEN r.xauth ELSE query_token(r.query)

\* the authorization step lets the request through
authorized(r, token_required) ==
  token_required = "" \/ token(r) = token_required

\* a handler without the route check
route_any(r) == TRUE

\* parsed.path is the subscribe endpoint
route(r) == r.path = "/subscribe"

\* BaseHTTPRequestHandler finds a do_<method> on SubscribeHandler
has_handler(r) == r.method = "POST"

\* payload.get("email", ""): the value of the last "email" member
get_email(payload) ==
  LET hits == {i \in 1..Len(payload.pairs) :
                 payload.pairs[i][1] = <<"e", "m", "a", "i", "l">>}
  IN IF hits = {} THEN JStr(<<>>)
     ELSE payload.pairs[CHOOSE i \in hits : \A j \in hits : j <= i][2]

\* str(value) for the values an email member is given in the model
str(v) ==
  CASE v.t = "str"  -> v.s
    [] v.t = "int"  -> DecimalDigits(v.n)
    [] v.t = "null" -> <<"N", "o", "n", "e">>

\* a validation that looks for the "@" alone
valid_at_only(email) == Contains(email, "@")

\* not ("@" not in email or "." not in email)
valid(email) == Contains(email, "@") /\ Contains(email, ".")

\* What the handler has done when it stops or reaches the store
Rejected(code) == [out |-> "error", status |-> code, exc |-> "", email |-> <<>>]
Crashed(e) == [out |-> "raise", status |-> 0, exc |-> e, email |-> <<>>]
Accepted(email) == [out |-> "ok", status |-> 0, exc |-> "", email |-> email]

\* do_POST from the Content-Length header to the validated email
read_email(r) ==
  IF r.clen.kind = "nan" THEN Crashed("ValueError")
  ELSE
    LET length == r.clen.n
        raw == IF length # 0 THEN SubSeq(r.data, 1, length) ELSE <<>>
    IN
    IF raw # <<>> /\ DecodeFails(raw) THEN Crashed("UnicodeDecodeError")
    ELSE
      LET payload == IF raw # <<>> THEN loads(raw) ELSE Parsed(JDict(<<>>), 1) IN
      IF ~payload.ok THEN Rejected(400)
      ELSE IF payload.val.t # "dict" THEN Crashed("AttributeError")
      ELSE
        LET email == strip(str(get_email(payload.val))) IN
        IF ~valid(email) THEN Rejected(400) ELSE Accepted(email)

\* A request from its dispatch to the store access: the method dispatch of
\* BaseHTTPRequestHandler, then do_POST's route check, authorization, payload
\* parse and validation
begin(r, token_required) ==
  IF ~has_handler(r) THEN Rejected(501)
  ELSE IF ~route(r) THEN Rejected(404)
  ELSE IF ~authorized(r, token_required) THEN Rejected(403)
  ELSE read_email(r)

\* a relay enabled without a from-address
smtp_config_without_from(a) ==
  a.smtp_host # "" /\ a.smtp_user # "" /\ a.smtp_pass # ""

\* main(): server.smtp_config is set, not None
smtp_config(a) ==
  a.smtp_host # "" /\ a.smtp_user # "" /\ a.smtp_pass # "" /\ a.from_email # ""


(***************************************************************************)
(* The inputs of the model                                                 *)
(***************************************************************************)

\* connections the server can have open at once
NumHandlers == 2

Handlers == 1..NumHandlers

Quoted(s) == <<"\"">> \o s \o <<"\"">>

\* {"email":<value>}
EmailObject(value) ==
  <<"{">> \o Quoted(<<"e", "m", "a", "i", "l">>) \o <<":">> \o value \o <<"}">>

EmailA == <<"a", "@", "b", ".", "c">>
EmailQ == <<"\"", "@", ".">>

BodyA == EmailObject(Quoted(EmailA))
\* {"email":" \"@. "}: the address "@. with a space on each side
BodyQ == EmailObject(Quoted(<<" ", "\\", "\"", "@", ".", " ">>))

\* request bodies sent with a Content-Length equal to their length
Bodies ==
  { <<>>,
    <<"n", "o", "t", " ", "j", "s", "o", "n">>,
    BodyA,
    BodyQ,
    EmailObject(Quoted(<<"a", "@", "b">>)),
    EmailObject(Quoted(<<"a", ".", "b">>)),
    EmailObject(<<"5">>),
    <<"{", "}">>,
    <<"[", "1", "]">>,
    <<"xFF">> }

\* the bodies with their Content-Length: the exact one, and for one body a
\* missing header, a length one short and a header that is no number
Payloads ==
  {[clen |-> Length(Len(b)), data |-> b] : b \in Bodies}
    \cup {[clen |-> c, data |-> BodyA] :
            c \in {NoLength, Length(Len(BodyA) - 1), BadLength}}

Queries ==
  { <<>>,
    << <<"token", "secret">> >>,
    << <<"token", "wrong">> >>,
    << <<"token", "">>, <<"token", "secret">> >> }

Requests ==
  {[method |-> m, path |-> p, query |-> q, xauth |-> x,
    clen |-> b.clen, data |-> b.data] :
     m \in {"POST", "GET"}, p \in {"/subscribe", "/other"},
     q \in Queries, x \in {"", "secret", "wrong"}, b \in Payloads}

NoRequest ==
  [method |-> "", path |-> "", query |-> <<>>, xauth |-> "",
   clen |-> NoLength, data |-> <<>>]

\* the command lines the server is started with: the token set or not, the
\* mail relay fully configured, missing one of its four settings, or unset
RelayArgs ==
  {[smtp_host |-> IF m = 1 THEN "" ELSE "smtp.example.org",
    smtp_user |-> IF m = 2 THEN "" ELSE "user",
    smtp_pass |-> IF m = 3 THEN "" ELSE "password",
    from_email |-> IF m = 4 THEN "" ELSE "news@example.org"] : m \in 0..4}
    \cup {[smtp_host |-> "", smtp_user |-> "", smtp_pass |-> "", from_email |-> ""]}

Args ==
  {[token |-> t, smtp_host |-> m.smtp_host, smtp_user |-> m.smtp_user,
    smtp_pass |-> m.smtp_pass, from_email |-> m.from_email] :
     t \in {"", "secret"}, m \in RelayArgs}

\* the store file the server finds when it starts
InitialFiles ==
  { AbsentFile,
    FileOf(<<"n", "o", "t", " ", "j", "s", "o", "n">>),
    FileOf(<<"{", "}">>),
    FileOf(<<"7">>),
    FileOf(<<"[", "1", "]">>),
    FileOf(<<"xFF">>),
    FileOf(<<"[", "]">>),
    FileOf(<<"[">> \o Quoted(EmailA) \o <<",">> \o EncodeString(EmailQ) \o <<"]">>),
    FileOf(<<"[">> \o Quoted(EmailA) \o <<",">> \o Quoted(EmailA) \o <<"]">>) }

\* what send_welcome_email does: returns, or raises an Exception
SendOutcomes == {"sent", "SMTPException", "OSError"}

\* the file is a JSON array of strings in strictly ascending order
Normalized(f) ==
  /\ f.exists
  /\ ~DecodeFails(f.bytes)
  /\ LET d == loads(f.bytes) IN
     /\ d.ok
     /\ d.val.t = "list"
     /\ \A i \in 1..Len(d.val.items) : d.val.items[i].t = "str"
     /\ \A i \in 1..(Len(d.val.items) - 1) :
          StrLess(d.val.items[i].s, d.val.items[i + 1].s)

(***************************************************************************)
(* The server                                                              *)
(***************************************************************************)
VARIABLES
  args,          \* the parsed command line, fixed at startup
  file,          \* the store file
  pc,            \* where each handler is in do_POST
  req,           \* the request a handler is handling
  email,         \* do_POST's local email
  emails,        \* do_POST's local emails
  welcome_sent,  \* do_POST's local welcome_sent
  status,        \* the status of the response sent, 0 while none is
  exc,           \* the exception that ended the handler, "" if none
  before,        \* the store file when the handler began
  sends,         \* the outcomes of the handler's calls of send_welcome_email
  wrote,         \* the handler has written the store file
  written,       \* the server has written the store file
  norm0,         \* the store file was absent or normalized at startup
  hist           \* <<email, status, wrote>> of the validated requests closed

vars == <<args, file, pc, req, email, emails, welcome_sent, status, exc,
          before, sends, wrote, written, norm0, hist>>

Init ==
  /\ args \in Args
  /\ file \in InitialFiles
  /\ pc = [h \in Handlers |-> "idle"]
  /\ req = [h \in Handlers |-> NoRequest]
  /\ email = [h \in Handlers |-> <<>>]
  /\ emails = [h \in Handlers |-> <<>>]
  /\ welcome_sent = [h \in Handlers |-> FALSE]
  /\ status = [h \in Handlers |-> 0]
  /\ exc = [h \in Handlers |-> ""]
  /\ before = [h \in Handlers |-> AbsentFile]
  /\ sends = [h \in Handlers |-> <<>>]
  /\ wrote = [h \in Handlers |-> FALSE]
  /\ written = FALSE
  /\ norm0 = (~file.exists \/ Normalized(file))
  /\ hist = {}

\* a server that starts a thread per connection (ThreadingHTTPServer)
handling_threaded == FALSE

\* HTTPServer.serve_forever is in a handler: it handles one request at a
\* time and accepts the next connection when the handler has returned
handling == \E h \in Handlers : pc[h] # "idle"

\* The server accepts a connection, which takes the lowest free slot, and the
\* handler runs to the store access
Accept(h) ==
  /\ pc[h] = "idle"
  /\ \A g \in Handlers : g < h => pc[g] # "idle"
  /\ ~handling
  /\ \E r \in Requests :
       LET b == begin(r, args.token) IN
       /\ req' = [req EXCEPT ![h] = r]
       /\ before' = [before EXCEPT ![h] = file]
       /\ pc' = [pc EXCEPT ![h] = IF b.out = "ok" THEN "load" ELSE "done"]
       /\ email' = [email EXCEPT ![h] = b.email]
       /\ status' = [status EXCEPT ![h] = b.status]
       /\ exc' = [exc EXCEPT ![h] = b.exc]
  /\ UNCHANGED <<args, file, emails, welcome_sent, sends, wrote, written,
                 norm0, hist>>

\* emails = load_subscribers(store)
Load(h) ==
  /\ pc[h] = "load"
  /\ LET l == load_subscribers(file) IN
     /\ emails' = [emails EXCEPT ![h] = l.value]
     /\ exc' = [exc EXCEPT ![h] = l.raised]
     /\ pc' = [pc EXCEPT ![h] = IF l.raised = "" THEN "save" ELSE "done"]
  /\ UNCHANGED <<args, file, req, email, welcome_sent, status, before, sends,
                 wrote, written, norm0, hist>>

\* if email not in emails: emails.append(email); save_subscribers(store, emails)
Save(h) ==
  /\ pc[h] = "save"
  /\ IF NotIn(email[h], emails[h])
     THEN LET appended == append(emails[h], email[h])
              s == save_subscribers(appended)
          IN
          /\ emails' = [emails EXCEPT ![h] = appended]
          /\ exc' = [exc EXCEPT ![h] = s.raised]
          /\ pc' = [pc EXCEPT ![h] = IF s.raised = "" THEN "mail" ELSE "done"]
          /\ file' = IF s.raised = "" THEN s.value ELSE file
          /\ wrote' = [wrote EXCEPT ![h] = s.raised = ""]
          /\ written' = (written \/ s.raised = "")
     ELSE /\ pc' = [pc EXCEPT ![h] = "mail"]
          /\ UNCHANGED <<emails, exc, file, wrote, written>>
  /\ UNCHANGED <<args, req, email, welcome_sent, status, before, sends, norm0,
                 hist>>

\* if smtp_config: try send_welcome_email, welcome_sent = True, except
\* Exception: welcome_sent = False
Mail(h) ==
  /\ pc[h] = "mail"
  /\ IF smtp_config(args)
     THEN \E o \in SendOutcomes :
            /\ sends' = [sends EXCEPT ![h] = Append(sends[h], o)]
            /\ welcome_sent' = [welcome_sent EXCEPT ![h] = (o = "sent")]
     ELSE UNCHANGED <<sends, welcome_sent>>
  /\ pc' = [pc EXCEPT ![h] = "respond"]
  /\ UNCHANGED <<args, file, req, email, emails, status, exc, before, wrote,
                 written, norm0, hist>>

\* send_response(200) and the JSON body
Respond(h) ==
  /\ pc[h] = "respond"
  /\ status' = [status EXCEPT ![h] = 200]
  /\ pc' = [pc EXCEPT ![h] = "done"]
  /\ UNCHANGED <<args, file, req, email, emails, welcome_sent, exc, before,
                 sends, wrote, written, norm0, hist>>

\* The handler has returned or raised: the connection is closed and the
\* server goes on to the next one
Close(h) ==
  /\ pc[h] = "done"
  /\ hist' = IF email[h] # <<>>
             THEN hist \cup {<<email[h], status[h], wrote[h]>>}
             ELSE hist
  /\ pc' = [pc EXCEPT ![h] = "idle"]
  /\ req' = [req EXCEPT ![h] = NoRequest]
  /\ email' = [email EXCEPT ![h] = <<>>]
  /\ emails' = [emails EXCEPT ![h] = <<>>]
  /\ welcome_sent' = [welcome_sent EXCEPT ![h] = FALSE]
  /\ status' = [status EXCEPT ![h] = 0]
  /\ exc' = [exc EXCEPT ![h] = ""]
  /\ before' = [before EXCEPT ![h] = AbsentFile]
  /\ sends' = [sends EXCEPT ![h] = <<>>]
  /\ wrote' = [wrote EXCEPT ![h] = FALSE]
  /\ UNCHANGED <<args, file, written, norm0>>

Next ==
  \E h \in Handlers :
    Accept(h) \/ Load(h) \/ Save(h) \/ Mail(h) \/ Respond(h) \/ Close(h)

Spec == Init /\ [][Next]_vars

(***************************************************************************)
(* The vocabulary of the properties, stated from the request and the file  *)
(* rather than from the handler's own steps                                *)
(***************************************************************************)
Done(h) == pc[h] = "done"

\* the request is a POST to the subscribe endpoint
Subscribe(h) == req[h].method = "POST" /\ req[h].path = "/subscribe"

\* the X-Auth-Token header if it is non-empty, otherwise the token parameter
PresentedToken(r) == IF r.xauth = "" THEN query_token(r.query) ELSE r.xauth

PassesAuthorization(h) ==
  args.token = "" \/ PresentedToken(req[h]) = args.token

\* the body: the bytes the Content-Length header declares
Body(r) == IF r.clen.kind = "int" THEN SubSeq(r.data, 1, r.clen.n) ELSE <<>>

\* the body is absent or is a JSON object
BodyIsObject(r) ==
  /\ r.clen.kind # "nan"
  /\ \/ Body(r) = <<>>
     \/ /\ ~DecodeFails(Body(r))
        /\ loads(Body(r)).ok
        /\ loads(Body(r)).val.t = "dict"

\* the body's email value, coerced to a string and trimmed
BodyEmail(r) ==
  strip(str(get_email(IF Body(r) = <<>> THEN JDict(<<>>) ELSE loads(Body(r)).val)))

LacksAtOrDot(e) == ~Contains(e, "@") \/ ~Contains(e, ".")

PassesValidation(h) == BodyIsObject(req[h]) /\ ~LacksAtOrDot(BodyEmail(req[h]))

\* a POST to /subscribe that passes authorization and carries a valid email
ValidSubscribe(h) ==
  Done(h) /\ Subscribe(h) /\ PassesAuthorization(h) /\ PassesValidation(h)

\* the file can be read as a list, each element of which is a string
ReadsAsStrings(f) ==
  /\ load_subscribers(f).raised = ""
  /\ \A i \in 1..Len(load_subscribers(f).value) :
       load_subscribers(f).value[i].t = "str"

\* the addresses in the file, for a file that reads as strings
Stored(f) == load_subscribers(f).value

Count(e, xs) == Cardinality({i \in 1..Len(xs) : xs[i] = JStr(e)})

\* the request left the store and the mail relay alone
Untouched(h) == file = before[h] /\ ~wrote[h] /\ sends[h] = <<>>

RelayConfigured ==
  /\ args.smtp_host # ""
  /\ args.smtp_user # ""
  /\ args.smtp_pass # ""
  /\ args.from_email # ""

\* the file holds a JSON array of strings
StringArray(f) ==
  /\ f.exists
  /\ ~DecodeFails(f.bytes)
  /\ loads(f.bytes).ok
  /\ loads(f.bytes).val.t = "list"
  /\ \A i \in 1..Len(loads(f.bytes).val.items) :
       loads(f.bytes).val.items[i].t = "str"

(***************************************************************************)
(* C1                                                                      *)
(***************************************************************************)

\* C1: a POST /subscribe that passes authorization, of a valid email E that
\* is not in the store, is answered 200, and afterwards the store holds E
\* exactly once together with every address it held before.  The prior store
\* is any file that reads as a list of strings: every file the server has
\* written, and an absent or unparseable one.
C1_NewEmailStoredOnce ==
  \A h \in Handlers :
    (/\ ValidSubscribe(h)
     /\ ReadsAsStrings(before[h])
     /\ Count(email[h], Stored(before[h])) = 0)
    => /\ status[h] = 200
       /\ email[h] = BodyEmail(req[h])
       /\ ReadsAsStrings(file)
       /\ Count(email[h], Stored(file)) = 1
       /\ \A i \in 1..Len(Stored(before[h])) :
            Stored(before[h])[i] \in Range(Stored(file))

\* a new address has been added to a store that the server wrote earlier
C1_Witness ==
  \E h \in Handlers :
    /\ ValidSubscribe(h)
    /\ status[h] = 200
    /\ wrote[h]
    /\ \E p \in hist : p[3] /\ p[1] # email[h]
    /\ Len(Stored(before[h])) = 1
    /\ Len(Stored(file)) = 2

(***************************************************************************)
(* C2                                                                      *)
(***************************************************************************)

\* C2: subscribing is idempotent from every starting store: when a valid
\* email E is POSTed again, the earlier POSTs of E and this one are all
\* answered 200 and the store holds E exactly once.
C2_Idempotent ==
  \A h \in Handlers :
    (ValidSubscribe(h) /\ \E p \in hist : p[1] = BodyEmail(req[h]))
    => /\ \A p \in hist : p[1] = BodyEmail(req[h]) => p[2] = 200
       /\ status[h] = 200
       /\ ReadsAsStrings(file)
       /\ Count(BodyEmail(req[h]), Stored(file)) = 1

(***************************************************************************)
(* C3                                                                      *)
(***************************************************************************)

\* C3: with a token configured, a POST /subscribe whose token (the header if
\* non-empty, otherwise the query parameter) is missing or differs from the
\* configured one is answered 403 whatever its body, the store is unchanged
\* and no mail is attempted; with no token configured nothing is answered 403.
C3_TokenMismatchForbidden ==
  \A h \in Handlers :
    /\ (Done(h) /\ Subscribe(h) /\ args.token # ""
          /\ PresentedToken(req[h]) # args.token)
       => (status[h] = 403 /\ Untouched(h))
    /\ args.token = "" => status[h] # 403

\* a wrong header is not rescued by a right query parameter, on a valid body
C3_Witness ==
  \E h \in Handlers :
    /\ Done(h) /\ Subscribe(h)
    /\ args.token = "secret"
    /\ req[h].xauth = "wrong"
    /\ query_token(req[h].query) = "secret"
    /\ req[h].data = BodyA /\ req[h].clen = Length(Len(BodyA))
    /\ status[h] = 403

(***************************************************************************)
(* C4                                                                      *)
(***************************************************************************)

\* C4: a POST /subscribe that passes authorization and whose body is absent
\* or a JSON object whose email value, coerced to a string and trimmed, lacks
\* an "@" or a "." is answered 400, the store is unchanged and no mail is
\* attempted.
C4_InvalidEmailRejected ==
  \A h \in Handlers :
    (/\ Done(h) /\ Subscribe(h) /\ PassesAuthorization(h)
     /\ BodyIsObject(req[h])
     /\ LacksAtOrDot(BodyEmail(req[h])))
    => (status[h] = 400 /\ Untouched(h))

\* an email with an "@" and no "." has been rejected while the store was not empty
C4_Witness ==
  \E h \in Handlers :
    /\ Done(h) /\ Subscribe(h) /\ PassesAuthorization(h)
    /\ BodyIsObject(req[h])
    /\ BodyEmail(req[h]) = <<"a", "@", "b">>
    /\ status[h] = 400
    /\ written

(***************************************************************************)
(* C5                                                                      *)
(***************************************************************************)

\* C5: every POST /subscribe is answered, with 200 or with one of the
\* rejections (403, 400), whatever its body and whatever the store file
\* holds; it is answered 200 when it passes authorization and validation.
C5_AlwaysAnswered ==
  \A h \in Handlers :
    (Done(h) /\ Subscribe(h))
    => /\ status[h] \in {200, 400, 403}
       /\ (PassesAuthorization(h) /\ PassesValidation(h)) => status[h] = 200

(***************************************************************************)
(* C6                                                                      *)
(***************************************************************************)

\* C6: in a 200 response welcome_sent is true exactly when the relay is
\* configured (host, user, password and from-address all non-empty) and the
\* send returned without an error; a send that fails still ends in 200 with
\* welcome_sent false and the email in the store; the send is attempted at
\* most once, only with the relay configured and only after the store holds
\* the email.
C6_MailNeverDecides ==
  \A h \in Handlers :
    /\ status[h] = 200 =>
         /\ welcome_sent[h] = (RelayConfigured /\ sends[h] = <<"sent">>)
         /\ RelayConfigured => Len(sends[h]) = 1
         /\ Count(email[h], Stored(file)) >= 1
    /\ Len(sends[h]) <= 1
    /\ sends[h] # <<>> =>
         /\ RelayConfigured
         /\ pc[h] \in {"respond", "done"}
         /\ Count(email[h], Stored(file)) >= 1
    /\ (Done(h) /\ sends[h] # <<>>) => status[h] = 200
    /\ (Done(h) /\ email[h] # <<>> /\ exc[h] = "") => status[h] = 200

\* a send that failed, answered 200 with welcome_sent false
C6_Witness ==
  \E h \in Handlers :
    /\ Done(h)
    /\ status[h] = 200
    /\ sends[h] = <<"OSError">>
    /\ ~welcome_sent[h]
    /\ wrote[h]

(***************************************************************************)
(* C7                                                                      *)
(***************************************************************************)

RoundTrip(xs) ==
  /\ ReadsAsStrings(file)
  /\ Range(Stored(file)) = Range(xs)
  /\ \A i \in 1..(Len(Stored(file)) - 1) :
       StrLess(Stored(file)[i].s, Stored(file)[i + 1].s)

\* C8 as stated: in every reachable state, from any initial store file, the
\* file holds a deduplicated, ascending array of strings.
C8_Original == file.exists => Normalized(file)

\* C8: once the server has written the store file, and from the start when
\* the file is absent or already such an array, the file holds a
\* deduplicated, ascending array of strings in every reachable state; and the
\* list a request saves, read back, is the same set of addresses, strictly
\* ascending.
C8_WrittenStoreNormalized ==
  /\ written => Normalized(file)
  /\ norm0 => (~file.exists \/ Normalized(file))
  /\ \A h \in Handlers : (wrote[h] /\ pc[h] = "mail") => RoundTrip(emails[h])

\* the server has rewritten a file that was not normalized at startup, and
\* the file now holds two addresses, one of which needs escaping
C8_Witness ==
  /\ written
  /\ ~norm0
  /\ Normalized(file)
  /\ Len(Stored(file)) = 2
  /\ Count(EmailQ, Stored(file)) = 1
  /\ \E h \in Handlers : wrote[h] /\ pc[h] = "mail" /\ email[h] = EmailA

(***************************************************************************)
(* C9                                                                      *)
(***************************************************************************)

\* C9: loading is fail-open: from a file that is absent or anything other
\* than a JSON array of strings, load returns the empty list without raising,
\* and the next valid subscribe of E is answered 200 and rewrites the store
\* as exactly [E].
C9_LoadFailOpen ==
  \A h \in Handlers :
    ~StringArray(before[h]) =>
      /\ email[h] # <<>> => exc[h] # "UnicodeDecodeError"
      /\ pc[h] = "save" => emails[h] = <<>>
      /\ ValidSubscribe(h) =>
           /\ status[h] = 200
           /\ file = FileOf(dumps(<<JStr(BodyEmail(req[h]))>>))

(***************************************************************************)
(* C10                                                                     *)
(***************************************************************************)

====
